---- MODULE Spec2Model ----
(***************************************************************************)
(* Conversions between image::ImageBuffer / image::DynamicImage and        *)
(* opencv::core::Mat, as implemented in cv-convert/src/with_opencv_image.rs *)
(*                                                                         *)
(* A subpixel is modelled by its object representation: the tuple of       *)
(* size_of::<T>() bytes (little endian) that the bulk byte copy of the     *)
(* encoder moves and that Mat::at_2d / MatExt::as_slice read back.         *)
(* A Mat is its header (dims, rows, cols, type flags, row step in bytes)   *)
(* and its byte storage.                                                   *)
(***************************************************************************)
EXTENDS Integers, Sequences, FiniteSets, TLC

----------------------------------------------------------------------------
\* Bounds of the model.

\* Widths, heights, rows and cols range over 0 .. MaxDim.
MaxDim == 3

\* A matrix row may be followed by 0 .. MaxPad pixels that are not part of it
\* (a strided view of a wider matrix).
MaxPad == 1

\* The contents of an input are one of these byte ramps.
Seeds == {3, 150}

----------------------------------------------------------------------------
\* OpenCV type codes.

CV_8U == 0
CV_16U == 2
CV_32F == 5

\* CV_MAKETYPE packs the depth in the low CV_CN_SHIFT bits.
CV_CN_SHIFT == 3

CV_DEPTH_MAX == 2 ^ CV_CN_SHIFT

\* Every depth tag a Mat can report (CV_8U .. CV_16F).
Depths == 0 .. (CV_DEPTH_MAX - 1)

\* Channel counts of the matrices considered.
ChannelCounts == 1 .. 4

CV_MAKETYPE(depth, cn) == (depth % CV_DEPTH_MAX) + (cn - 1) * CV_DEPTH_MAX

\* Bytes of one element of a matrix of the given depth.
ElemSize1(depth) ==
    CASE depth \in {0, 1} -> 1
      [] depth \in {2, 3, 7} -> 2
      [] depth \in {4, 5} -> 4
      [] depth = 6 -> 8

----------------------------------------------------------------------------
\* The subpixel types and the pixel kinds.

SubpixelTypes == {"u8", "u16", "f32"}

PixelKinds == {"Luma", "LumaA", "Rgb", "Rgba"}

\* std::mem::size_of::<T>()
SizeOf(T) ==
    CASE T = "u8" -> 1
      [] T = "u16" -> 2
      [] T = "f32" -> 4

\* <T as OpenCvElement>::DEPTH
DEPTH(T) ==
    CASE T = "u8" -> CV_8U
      [] T = "u16" -> CV_16U
      [] T = "f32" -> CV_32F

\* <P as image::Pixel>::CHANNEL_COUNT
CHANNEL_COUNT(P) ==
    CASE P = "Luma" -> 1
      [] P = "LumaA" -> 2
      [] P = "Rgb" -> 3
      [] P = "Rgba" -> 4

\* `x as i32` of a u32, and `x as u32` of an i32.
AsI32(x) == IF x > 2147483647 THEN x - 65536 * 65536 ELSE x

AsU32(x) == IF x < 0 THEN x + 65536 * 65536 ELSE x

----------------------------------------------------------------------------
\* Values.

NoValue == [tag |-> "None"]

NoError == [msg |-> "", args |-> << >>]

NoEffects == [views |-> 0, reads |-> 0, allocs |-> 0, copied |-> 0]

\* A value an error message states, written in its text or formatted into it.
Arg(name, val) == [name |-> name, val |-> val]

\* Result<_, anyhow::Error>, a panic, and what the call did to get there:
\* contiguous-view attempts, per-element reads, output allocations and
\* elements (decode) or bytes (encode) copied into the output.
Ok(v, fx) == [status |-> "ok", value |-> v, error |-> NoError, fx |-> fx]

Err(msg, args, fx) ==
    [status |-> "err", value |-> NoValue,
     error |-> [msg |-> msg, args |-> args], fx |-> fx]

Panic(fx) == [status |-> "panic", value |-> NoValue, error |-> NoError, fx |-> fx]

\* image::ImageBuffer<P, Vec<T>>: raw is as_raw(), row-major, interleaved.
ImageBuffer(P, T, width, height, raw) ==
    [tag |-> "ImageBuffer", kind |-> P, elem |-> T,
     width |-> width, height |-> height, raw |-> raw]

\* image::DynamicImage
DynamicImage(variant, image) ==
    [tag |-> "DynamicImage", variant |-> variant, image |-> image]

\* cv::Mat: rows and cols are -1 when dims > 2.
Mat(dims, rows, cols, typ, step, data) ==
    [tag |-> "Mat", dims |-> dims, rows |-> rows, cols |-> cols,
     typ |-> typ, step |-> step, data |-> data]

MatDepth(m) == m.typ % CV_DEPTH_MAX

MatChannels(m) == (m.typ \div CV_DEPTH_MAX) + 1

\* Bytes of one pixel of the matrix.
MatElemSize(m) == ElemSize1(MatDepth(m)) * MatChannels(m)

\* Mat::is_continuous
IsContinuous(m) ==
    \/ m.dims > 2
    \/ m.rows <= 1
    \/ m.step = m.cols * MatElemSize(m)

----------------------------------------------------------------------------
\* The capabilities of the matrix and of the pixel buffer the conversions use.

Zeros(n) == [i \in 1 .. n |-> 0]

\* cv::Mat::zeros(rows, cols, typ)?.to_mat()?: a fresh, continuous, zeroed
\* matrix, or OpenCV's error when a size is negative.
MatZeros(rows, cols, typ) ==
    IF rows < 0 \/ cols < 0
    THEN Err("Mat::zeros failed", << >>, NoEffects)
    ELSE LET esz == ElemSize1(typ % CV_DEPTH_MAX) * ((typ \div CV_DEPTH_MAX) + 1)
         IN Ok(Mat(2, rows, cols, typ, cols * esz, Zeros(rows * cols * esz)),
               [NoEffects EXCEPT !.allocs = 1])

\* img_data.as_ptr() as *const u8: the buffer's elements as bytes.
AsBytes(raw, sz) ==
    [i \in 1 .. Len(raw) * sz |-> raw[((i - 1) \div sz) + 1][((i - 1) % sz) + 1]]

\* std::ptr::copy_nonoverlapping(src, dst, count) on byte storage.
CopyNonoverlapping(src, dst, count) ==
    [i \in 1 .. Len(dst) |-> IF i <= count THEN src[i] ELSE dst[i]]

\* The element of sz bytes stored at byte offset off.
ElemAt(data, off, sz) == [j \in 1 .. sz |-> data[off + j]]

\* MatExt::numel: the number of elements of the matrix.
Numel(mat) ==
    IF mat.dims > 2
    THEN Len(mat.data) \div ElemSize1(MatDepth(mat))
    ELSE mat.rows * mat.cols * MatChannels(mat)

\* MatExt::as_slice::<T>: whether the typed contiguous view is available.
AsSliceOk(mat, T) == MatDepth(mat) = DEPTH(T) /\ IsContinuous(mat)

\* MatExt::as_slice::<T>: the view, numel elements from the start of the storage.
AsSlice(mat, T) ==
    [k \in 1 .. Numel(mat) |-> ElemAt(mat.data, (k - 1) * SizeOf(T), SizeOf(T))]

\* Mat::at_2d::<T> (cn = 1) and Mat::at_2d::<Point3_<T>> (cn = 3): the type
\* and bounds checks that decide between Ok and Err.
At2dOk(mat, T, cn, row, col) ==
    /\ mat.dims = 2
    /\ mat.typ = CV_MAKETYPE(DEPTH(T), cn)
    /\ 0 <= row /\ row < mat.rows
    /\ 0 <= col /\ col < mat.cols

\* At2d with a defect: rows taken to be packed, the row step ignored.
At2dPacked(mat, T, cn, row, col) ==
    [c \in 1 .. cn |->
        ElemAt(mat.data, (row * mat.cols * cn + col * cn + (c - 1)) * SizeOf(T), SizeOf(T))]

\* Mat::at_2d: the cn elements of the pixel at (row, col).
At2d(mat, T, cn, row, col) ==
    [c \in 1 .. cn |->
        ElemAt(mat.data, row * mat.step + (col * cn + (c - 1)) * SizeOf(T), SizeOf(T))]

\* ImageBuffer::from_vec(width, height, buf): None when buf is too short.
FromVec(P, T, width, height, buf) ==
    IF Len(buf) < width * height * CHANNEL_COUNT(P)
    THEN NoValue
    ELSE ImageBuffer(P, T, width, height, buf)

\* ImageBuffer::from_fn(width, height, f): pixel (x, y) is f[x, y], the value
\* of the closure there.
FromFn(P, T, width, height, f) ==
    LET cn == CHANNEL_COUNT(P)
    IN ImageBuffer(P, T, width, height,
           [k \in 1 .. width * height * cn |->
               f[((k - 1) \div cn) % width, ((k - 1) \div cn) \div width][((k - 1) % cn) + 1]])

\* image[(x, y)]: the pixel at column x, row y.
GetPixel(image, x, y) ==
    LET cn == CHANNEL_COUNT(image.kind)
    IN [c \in 1 .. cn |-> image.raw[(y * image.width + x) * cn + c]]

----------------------------------------------------------------------------
\* ImageBuffer -> Mat

\* TotalBytes with a defect: the element count, not multiplied by the element size.
TotalBytesElements(width, height, P, T) == width * height * CHANNEL_COUNT(P)

\* The length of the bulk copy.
TotalBytes(width, height, P, T) == (width * height * CHANNEL_COUNT(P)) * SizeOf(T)

\* BufferTryToCv with a defect: the matrix allocated with rows and cols exchanged.
BufferTryToCvTransposed(image) ==
    LET width == image.width
        height == image.height
        cv_type == CV_MAKETYPE(DEPTH(image.elem), CHANNEL_COUNT(image.kind))
        zeros == MatZeros(AsI32(width), AsI32(height), cv_type)
    IN IF zeros.status # "ok"
       THEN zeros
       ELSE LET total_bytes == TotalBytes(width, height, image.kind, image.elem)
                img_data == AsBytes(image.raw, SizeOf(image.elem))
                mat == [zeros.value EXCEPT
                           !.data = CopyNonoverlapping(img_data, @, total_bytes)]
            IN Ok(mat, [zeros.fx EXCEPT !.copied = total_bytes])

\* <ImageBuffer<P, Container> as TryToCv<cv::Mat>>::try_to_cv
BufferTryToCv(image) ==
    LET width == image.width
        height == image.height
        cv_type == CV_MAKETYPE(DEPTH(image.elem), CHANNEL_COUNT(image.kind))
        zeros == MatZeros(AsI32(height), AsI32(width), cv_type)
    IN IF zeros.status # "ok"
       THEN zeros
       ELSE LET total_bytes == TotalBytes(width, height, image.kind, image.elem)
                img_data == AsBytes(image.raw, SizeOf(image.elem))
                mat == [zeros.value EXCEPT
                           !.data = CopyNonoverlapping(img_data, @, total_bytes)]
            IN Ok(mat, [zeros.fx EXCEPT !.copied = total_bytes])

\* The variants of image::DynamicImage.
Variants ==
    {"ImageLuma8", "ImageLumaA8", "ImageRgb8", "ImageRgba8", "ImageLuma16",
     "ImageLumaA16", "ImageRgb16", "ImageRgba16", "ImageRgb32F", "ImageRgba32F"}

\* The buffer type each variant owns.
VariantKind(v) ==
    CASE v \in {"ImageLuma8", "ImageLuma16"} -> "Luma"
      [] v \in {"ImageLumaA8", "ImageLumaA16"} -> "LumaA"
      [] v \in {"ImageRgb8", "ImageRgb16", "ImageRgb32F"} -> "Rgb"
      [] v \in {"ImageRgba8", "ImageRgba16", "ImageRgba32F"} -> "Rgba"

VariantElem(v) ==
    CASE v \in {"ImageLuma8", "ImageLumaA8", "ImageRgb8", "ImageRgba8"} -> "u8"
      [] v \in {"ImageLuma16", "ImageLumaA16", "ImageRgb16", "ImageRgba16"} -> "u16"
      [] v \in {"ImageRgb32F", "ImageRgba32F"} -> "f32"

\* DynamicTryToCv with a defect: the variants with an alpha channel fall through
\* to the unsupported arm.
DynamicTryToCvNoAlpha(dyn) ==
    IF dyn.variant \in Variants /\ VariantKind(dyn.variant) \in {"Luma", "Rgb"}
    THEN BufferTryToCv(dyn.image)
    ELSE Err("the color type {:?} is not supported", << >>, NoEffects)

\* <image::DynamicImage as TryToCv<cv::Mat>>::try_to_cv
DynamicTryToCv(dyn) ==
    IF dyn.variant \in Variants
    THEN BufferTryToCv(dyn.image)
    ELSE Err("the color type {:?} is not supported", << >>, NoEffects)

----------------------------------------------------------------------------
\* Mat -> ImageBuffer

\* mat_to_image_buffer_gray, Ok(slice) arm.
GrayFromSlice(mat, T, width, height) ==
    LET slice == AsSlice(mat, T)
        image == FromVec("Luma", T, width, height, slice)
        fx == [NoEffects EXCEPT !.views = 1, !.allocs = 1, !.copied = Len(slice)]
    IN IF image.tag = "None" THEN Panic(fx) ELSE Ok(image, fx)

\* mat_to_image_buffer_gray, Err(_) arm.
GrayFromAt2d(mat, T, width, height) ==
    LET pixel == [col \in 0 .. width - 1, row \in 0 .. height - 1 |->
                     At2d(mat, T, 1, AsI32(row), AsI32(col))]
        fx == [NoEffects EXCEPT !.views = 1, !.allocs = 1]
    IN IF \A row \in 0 .. height - 1, col \in 0 .. width - 1 :
              At2dOk(mat, T, 1, AsI32(row), AsI32(col))
       THEN Ok(FromFn("Luma", T, width, height, pixel),
               [fx EXCEPT !.reads = width * height, !.copied = width * height])
       ELSE Panic([fx EXCEPT !.reads = 1])

mat_to_image_buffer_gray(mat, T, width, height) ==
    IF AsSliceOk(mat, T)
    THEN GrayFromSlice(mat, T, width, height)
    ELSE GrayFromAt2d(mat, T, width, height)

\* mat_to_image_buffer_rgb, Ok(slice) arm.
RgbFromSlice(mat, T, width, height) ==
    LET slice == AsSlice(mat, T)
        image == FromVec("Rgb", T, width, height, slice)
        fx == [NoEffects EXCEPT !.views = 1, !.allocs = 1, !.copied = Len(slice)]
    IN IF image.tag = "None" THEN Panic(fx) ELSE Ok(image, fx)

\* RgbFromAt2d with a defect: at_2d called with (col, row).
RgbFromAt2dSwapped(mat, T, width, height) ==
    LET pixel == [col \in 0 .. width - 1, row \in 0 .. height - 1 |->
                     At2d(mat, T, 3, AsI32(col), AsI32(row))]
        fx == [NoEffects EXCEPT !.views = 1, !.allocs = 1]
    IN IF \A row \in 0 .. height - 1, col \in 0 .. width - 1 :
              At2dOk(mat, T, 3, AsI32(col), AsI32(row))
       THEN Ok(FromFn("Rgb", T, width, height, pixel),
               [fx EXCEPT !.reads = width * height, !.copied = 3 * width * height])
       ELSE Panic([fx EXCEPT !.reads = 1])

\* mat_to_image_buffer_rgb, Err(_) arm.
RgbFromAt2d(mat, T, width, height) ==
    LET pixel == [col \in 0 .. width - 1, row \in 0 .. height - 1 |->
                     At2d(mat, T, 3, AsI32(row), AsI32(col))]
        fx == [NoEffects EXCEPT !.views = 1, !.allocs = 1]
    IN IF \A row \in 0 .. height - 1, col \in 0 .. width - 1 :
              At2dOk(mat, T, 3, AsI32(row), AsI32(col))
       THEN Ok(FromFn("Rgb", T, width, height, pixel),
               [fx EXCEPT !.reads = width * height, !.copied = 3 * width * height])
       ELSE Panic([fx EXCEPT !.reads = 1])

mat_to_image_buffer_rgb(mat, T, width, height) ==
    IF AsSliceOk(mat, T)
    THEN RgbFromSlice(mat, T, width, height)
    ELSE RgbFromAt2d(mat, T, width, height)

\* MatExt::type_name: names the depth and the channel count of the matrix.
TypeName(mat) == << Arg("depth", MatDepth(mat)), Arg("channels", MatChannels(mat)) >>

\* GrayTryToCv with a defect: the depth checked before the channel count.
GrayTryToCvDepthFirst(mat, T) ==
    LET rows == mat.rows
        cols == mat.cols
    IN IF ~(rows # -1 /\ cols # -1)
       THEN Err("Mat with more than 2 dimensions is not supported.",
                << Arg("dimensions", 2) >>, NoEffects)
       ELSE LET depth == MatDepth(mat)
                n_channels == MatChannels(mat)
                width == AsU32(cols)
                height == AsU32(rows)
            IN IF ~(depth = DEPTH(T))
               THEN Err("Subpixel type is not supported", << >>, NoEffects)
               ELSE IF ~(n_channels = 1)
               THEN Err("Unable to convert a multi-channel Mat to a gray image",
                        << >>, NoEffects)
               ELSE mat_to_image_buffer_gray(mat, T, width, height)

\* <cv::Mat as TryToCv<ImageBuffer<Luma<T>, Vec<T>>>>::try_to_cv
GrayTryToCv(mat, T) ==
    LET rows == mat.rows
        cols == mat.cols
    IN IF ~(rows # -1 /\ cols # -1)
       THEN Err("Mat with more than 2 dimensions is not supported.",
                << Arg("dimensions", 2) >>, NoEffects)
       ELSE LET depth == MatDepth(mat)
                n_channels == MatChannels(mat)
                width == AsU32(cols)
                height == AsU32(rows)
            IN IF ~(n_channels = 1)
               THEN Err("Unable to convert a multi-channel Mat to a gray image",
                        << >>, NoEffects)
               ELSE IF ~(depth = DEPTH(T))
               THEN Err("Subpixel type is not supported", << >>, NoEffects)
               ELSE mat_to_image_buffer_gray(mat, T, width, height)

\* RgbTryToCv with a defect: the depth checked only after the buffer was built.
RgbTryToCvLateCheck(mat, T) ==
    LET rows == mat.rows
        cols == mat.cols
    IN IF ~(rows # -1 /\ cols # -1)
       THEN Err("Mat with more than 2 dimensions is not supported.",
                << Arg("dimensions", 2) >>, NoEffects)
       ELSE LET depth == MatDepth(mat)
                n_channels == MatChannels(mat)
                width == AsU32(cols)
                height == AsU32(rows)
            IN IF ~(n_channels = 3)
               THEN Err("Expect 3 channels, but get {n_channels} channels",
                        << Arg("expected channels", 3), Arg("n_channels", n_channels) >>,
                        NoEffects)
               ELSE LET image == mat_to_image_buffer_rgb(mat, T, width, height)
                    IN IF ~(depth = DEPTH(T))
                       THEN Err("Subpixel type is not supported", << >>, image.fx)
                       ELSE image

\* RgbTryToCv with a defect: the channel error formats the depth, not n_channels.
RgbTryToCvWrongArg(mat, T) ==
    LET rows == mat.rows
        cols == mat.cols
    IN IF ~(rows # -1 /\ cols # -1)
       THEN Err("Mat with more than 2 dimensions is not supported.",
                << Arg("dimensions", 2) >>, NoEffects)
       ELSE LET depth == MatDepth(mat)
                n_channels == MatChannels(mat)
                width == AsU32(cols)
                height == AsU32(rows)
            IN IF ~(n_channels = 3)
               THEN Err("Expect 3 channels, but get {n_channels} channels",
                        << Arg("expected channels", 3), Arg("n_channels", depth) >>,
                        NoEffects)
               ELSE IF ~(depth = DEPTH(T))
               THEN Err("Subpixel type is not supported", << >>, NoEffects)
               ELSE mat_to_image_buffer_rgb(mat, T, width, height)

\* <cv::Mat as TryToCv<ImageBuffer<Rgb<T>, Vec<T>>>>::try_to_cv
RgbTryToCv(mat, T) ==
    LET rows == mat.rows
        cols == mat.cols
    IN IF ~(rows # -1 /\ cols # -1)
       THEN Err("Mat with more than 2 dimensions is not supported.",
                << Arg("dimensions", 2) >>, NoEffects)
       ELSE LET depth == MatDepth(mat)
                n_channels == MatChannels(mat)
                width == AsU32(cols)
                height == AsU32(rows)
            IN IF ~(n_channels = 3)
               THEN Err("Expect 3 channels, but get {n_channels} channels",
                        << Arg("expected channels", 3), Arg("n_channels", n_channels) >>,
                        NoEffects)
               ELSE IF ~(depth = DEPTH(T))
               THEN Err("Subpixel type is not supported", << >>, NoEffects)
               ELSE mat_to_image_buffer_rgb(mat, T, width, height)

\* From<ImageBuffer<..>> for DynamicImage: the variant that owns the buffer.
Into(P, T) ==
    CASE P = "Luma" /\ T = "u8" -> "ImageLuma8"
      [] P = "Luma" /\ T = "u16" -> "ImageLuma16"
      [] P = "Rgb" /\ T = "u8" -> "ImageRgb8"
      [] P = "Rgb" /\ T = "u16" -> "ImageRgb16"
      [] P = "Rgb" /\ T = "f32" -> "ImageRgb32F"

\* One arm of the dispatch: decode, then wrap.
Wrap(r) ==
    IF r.status = "ok"
    THEN [r EXCEPT !.value = DynamicImage(Into(r.value.kind, r.value.elem), r.value)]
    ELSE r

\* MatTryToCvDynamic with a defect: no arm for (CV_32F, 3).
MatTryToCvDynamicNoF32(mat) ==
    LET rows == mat.rows
        cols == mat.cols
    IN IF ~(rows # -1 /\ cols # -1)
       THEN Err("Mat with more than 2 dimensions is not supported.",
                << Arg("dimensions", 2) >>, NoEffects)
       ELSE LET depth == MatDepth(mat)
                n_channels == MatChannels(mat)
                width == AsU32(cols)
                height == AsU32(rows)
            IN CASE depth = CV_8U /\ n_channels = 1 ->
                      Wrap(mat_to_image_buffer_gray(mat, "u8", width, height))
                 [] depth = CV_16U /\ n_channels = 1 ->
                      Wrap(mat_to_image_buffer_gray(mat, "u16", width, height))
                 [] depth = CV_8U /\ n_channels = 3 ->
                      Wrap(mat_to_image_buffer_rgb(mat, "u8", width, height))
                 [] depth = CV_16U /\ n_channels = 3 ->
                      Wrap(mat_to_image_buffer_rgb(mat, "u16", width, height))
                 [] OTHER ->
                      Err("Mat of type {} is not supported", TypeName(mat), NoEffects)

\* MatTryToCvDynamic with a defect: the (CV_16U, 1) arm decodes u8 elements.
MatTryToCvDynamicWrongArm(mat) ==
    LET rows == mat.rows
        cols == mat.cols
    IN IF ~(rows # -1 /\ cols # -1)
       THEN Err("Mat with more than 2 dimensions is not supported.",
                << Arg("dimensions", 2) >>, NoEffects)
       ELSE LET depth == MatDepth(mat)
                n_channels == MatChannels(mat)
                width == AsU32(cols)
                height == AsU32(rows)
            IN CASE depth = CV_8U /\ n_channels = 1 ->
                      Wrap(mat_to_image_buffer_gray(mat, "u8", width, height))
                 [] depth = CV_16U /\ n_channels = 1 ->
                      Wrap(mat_to_image_buffer_gray(mat, "u8", width, height))
                 [] depth = CV_8U /\ n_channels = 3 ->
                      Wrap(mat_to_image_buffer_rgb(mat, "u8", width, height))
                 [] depth = CV_16U /\ n_channels = 3 ->
                      Wrap(mat_to_image_buffer_rgb(mat, "u16", width, height))
                 [] depth = CV_32F /\ n_channels = 3 ->
                      Wrap(mat_to_image_buffer_rgb(mat, "f32", width, height))
                 [] OTHER ->
                      Err("Mat of type {} is not supported", TypeName(mat), NoEffects)

\* <cv::Mat as TryToCv<image::DynamicImage>>::try_to_cv
MatTryToCvDynamic(mat) ==
    LET rows == mat.rows
        cols == mat.cols
    IN IF ~(rows # -1 /\ cols # -1)
       THEN Err("Mat with more than 2 dimensions is not supported.",
                << Arg("dimensions", 2) >>, NoEffects)
       ELSE LET depth == MatDepth(mat)
                n_channels == MatChannels(mat)
                width == AsU32(cols)
                height == AsU32(rows)
            IN CASE depth = CV_8U /\ n_channels = 1 ->
                      Wrap(mat_to_image_buffer_gray(mat, "u8", width, height))
                 [] depth = CV_16U /\ n_channels = 1 ->
                      Wrap(mat_to_image_buffer_gray(mat, "u16", width, height))
                 [] depth = CV_8U /\ n_channels = 3 ->
                      Wrap(mat_to_image_buffer_rgb(mat, "u8", width, height))
                 [] depth = CV_16U /\ n_channels = 3 ->
                      Wrap(mat_to_image_buffer_rgb(mat, "u16", width, height))
                 [] depth = CV_32F /\ n_channels = 3 ->
                      Wrap(mat_to_image_buffer_rgb(mat, "f32", width, height))
                 [] OTHER ->
                      Err("Mat of type {} is not supported", TypeName(mat), NoEffects)

----------------------------------------------------------------------------
\* The caller: an input value, and up to two conversions applied in turn,
\* the second to the value the first returned.

VARIABLES orig, mid, fin

vars == << orig, mid, fin >>

\* The bytes of an input: a ramp in which neighbouring bytes differ.
Ramp(seed, n) == [i \in 1 .. n |-> (seed + 7 * (i - 1)) % 256]

\* n elements of type T over the ramp.
RampRaw(T, n, seed) ==
    [k \in 1 .. n |-> [j \in 1 .. SizeOf(T) |-> (seed + 7 * ((k - 1) * SizeOf(T) + (j - 1))) % 256]]

Dims == 0 .. MaxDim

InputBuffers ==
    { ImageBuffer(P, T, w, h, RampRaw(T, w * h * CHANNEL_COUNT(P), s)) :
        P \in PixelKinds, T \in SubpixelTypes, w \in Dims, h \in Dims, s \in Seeds }

InputDynamicImages ==
    { DynamicImage(v, ImageBuffer(VariantKind(v), VariantElem(v), w, h,
          RampRaw(VariantElem(v), w * h * CHANNEL_COUNT(VariantKind(v)), s))) :
        v \in Variants, w \in Dims, h \in Dims, s \in Seeds }

\* Two-dimensional matrices of every depth and channel count, continuous or
\* with pad unused pixels after each row.
InputMats2d ==
    { Mat(2, r, c, CV_MAKETYPE(d, cn), (c + pad) * ElemSize1(d) * cn,
          Ramp(s, r * (c + pad) * ElemSize1(d) * cn)) :
        r \in Dims, c \in Dims, d \in Depths, cn \in ChannelCounts,
        pad \in 0 .. MaxPad, s \in Seeds }

\* Matrices of more than two dimensions (1 x 1 x 1): rows = cols = -1.
InputMats3d ==
    { Mat(3, -1, -1, CV_MAKETYPE(d, cn), ElemSize1(d) * cn, Ramp(s, ElemSize1(d) * cn)) :
        d \in Depths, cn \in ChannelCounts, s \in Seeds }

Inputs == InputBuffers \cup InputDynamicImages \cup InputMats2d \cup InputMats3d

NoCall ==
    [op |-> "none", elem |-> "", status |-> "none", value |-> NoValue,
     error |-> NoError, fx |-> NoEffects]

Call(op, T, r) ==
    [op |-> op, elem |-> T, status |-> r.status, value |-> r.value,
     error |-> r.error, fx |-> r.fx]

Init ==
    /\ orig \in Inputs
    /\ mid = NoCall
    /\ fin = NoCall

\* The value the next conversion is applied to.
Cur == IF mid.op = "none" THEN orig ELSE mid.value

CanCall == mid.op = "none" \/ (mid.status = "ok" /\ fin.op = "none")

Return(op, T, r) ==
    /\ IF mid.op = "none"
       THEN mid' = Call(op, T, r) /\ fin' = fin
       ELSE fin' = Call(op, T, r) /\ mid' = mid
    /\ orig' = orig

EncodeBuffer ==
    /\ CanCall
    /\ Cur.tag = "ImageBuffer"
    /\ Return("encode", Cur.elem, BufferTryToCv(Cur))

EncodeDynamic ==
    /\ CanCall
    /\ Cur.tag = "DynamicImage"
    /\ Return("encode_dynamic", Cur.image.elem, DynamicTryToCv(Cur))

DecodeGray ==
    /\ CanCall
    /\ Cur.tag = "Mat"
    /\ \E T \in SubpixelTypes : Return("decode_gray", T, GrayTryToCv(Cur, T))

DecodeRgb ==
    /\ CanCall
    /\ Cur.tag = "Mat"
    /\ \E T \in SubpixelTypes : Return("decode_rgb", T, RgbTryToCv(Cur, T))

DecodeDynamic ==
    /\ CanCall
    /\ Cur.tag = "Mat"
    /\ Return("decode_dynamic", "", MatTryToCvDynamic(Cur))

Next ==
    \/ EncodeBuffer
    \/ EncodeDynamic
    \/ DecodeGray
    \/ DecodeRgb
    \/ DecodeDynamic

Spec == Init /\ [][Next]_vars

----------------------------------------------------------------------------
\* Vocabulary of the properties.

DimensionalityMsg == "Mat with more than 2 dimensions is not supported."

GrayChannelMsg == "Unable to convert a multi-channel Mat to a gray image"

RgbChannelMsg == "Expect 3 channels, but get {n_channels} channels"

DepthMsg == "Subpixel type is not supported"

UnsupportedMsg == "Mat of type {} is not supported"

TypedDecodes == {"decode_gray", "decode_rgb"}

Decodes == TypedDecodes \cup {"decode_dynamic"}

\* The channel count a typed decode expects.
Expected(op) == IF op = "decode_gray" THEN 1 ELSE 3

\* The pixel kind a typed decode produces.
TargetKind(op) == IF op = "decode_gray" THEN "Luma" ELSE "Rgb"

\* The typed decode of a pixel kind.
DecodeOf(P) == IF P = "Luma" THEN "decode_gray" ELSE "decode_rgb"

\* The (depth, channels) pairs of the dispatch and the variant of each.
Supported ==
    { << CV_8U, 1 >>, << CV_16U, 1 >>, << CV_8U, 3 >>, << CV_16U, 3 >>, << CV_32F, 3 >> }

VariantOf(pair) ==
    CASE pair = << CV_8U, 1 >> -> "ImageLuma8"
      [] pair = << CV_16U, 1 >> -> "ImageLuma16"
      [] pair = << CV_8U, 3 >> -> "ImageRgb8"
      [] pair = << CV_16U, 3 >> -> "ImageRgb16"
      [] pair = << CV_32F, 3 >> -> "ImageRgb32F"

ElemOf(depth) ==
    CASE depth = CV_8U -> "u8"
      [] depth = CV_16U -> "u16"
      [] depth = CV_32F -> "f32"

PairOf(m) == << MatDepth(m), MatChannels(m) >>

\* Whether the error states a value under the given name.
States(error, name, val) ==
    \E i \in 1 .. Len(error.args) : error.args[i] = Arg(name, val)

\* Two images have the same dimensions and the same pixel at every place.
SameImage(a, b) ==
    /\ a.width = b.width
    /\ a.height = b.height
    /\ a.kind = b.kind
    /\ a.elem = b.elem
    /\ \A col \in 0 .. a.width - 1, row \in 0 .. a.height - 1 :
          GetPixel(a, col, row) = GetPixel(b, col, row)

\* The image holds at (col, row) what the matrix holds at (row, col).
ImageMatchesMat(image, m) ==
    /\ image.width = m.cols
    /\ image.height = m.rows
    /\ \A row \in 0 .. m.rows - 1, col \in 0 .. m.cols - 1 :
          /\ At2dOk(m, image.elem, CHANNEL_COUNT(image.kind), row, col)
          /\ At2d(m, image.elem, CHANNEL_COUNT(image.kind), row, col)
                = GetPixel(image, col, row)

\* Two matrices of the same shape and type hold the same pixel at every place.
SameMatContent(a, b) ==
    /\ a.dims = b.dims /\ a.rows = b.rows /\ a.cols = b.cols /\ a.typ = b.typ
    /\ \A row \in 0 .. a.rows - 1, col \in 0 .. a.cols - 1 :
          \A j \in 1 .. MatElemSize(a) :
              a.data[row * a.step + col * MatElemSize(a) + j]
                = b.data[row * b.step + col * MatElemSize(b) + j]

\* The continuous matrix with the logical content of m (what Mat::clone gives).
Compact(m) ==
    LET esz == MatElemSize(m)
    IN Mat(2, m.rows, m.cols, m.typ, m.cols * esz,
           [i \in 1 .. m.rows * m.cols * esz |->
               m.data[((i - 1) \div (m.cols * esz)) * m.step + ((i - 1) % (m.cols * esz)) + 1]])

\* The matrix passes the three preconditions of the typed decode (op, T).
Passes(m, op, T) ==
    /\ m.rows # -1 /\ m.cols # -1
    /\ MatChannels(m) = Expected(op)
    /\ MatDepth(m) = DEPTH(T)

----------------------------------------------------------------------------
C2_MatImageMat ==
    (orig.tag = "Mat" /\ mid.op \in TypedDecodes /\ Passes(orig, mid.op, mid.elem)) =>
        /\ mid.status = "ok"
        /\ mid.value.kind = TargetKind(mid.op)
        /\ mid.value.elem = mid.elem
        /\ ImageMatchesMat(mid.value, orig)
        /\ fin.op = "encode" =>
              /\ fin.status = "ok"
              /\ ImageMatchesMat(mid.value, fin.value)
              /\ SameMatContent(orig, fin.value)

C2_Witness ==
    /\ orig.tag = "Mat" /\ orig.rows = 2 /\ orig.cols = 2
    /\ PairOf(orig) = << CV_8U, 3 >>
    /\ mid.op = "decode_rgb" /\ mid.elem = "u8"
    /\ fin.op = "encode" /\ fin.status = "ok"

\* C3: on a 2-dimensional matrix decode_dynamic is decided by (depth,
\* channels) alone: each of the five supported pairs yields its variant,
\* every other pair the unsupported-combination error, and it never panics.
C3_DispatchTotal ==
    (orig.tag = "Mat" /\ orig.dims = 2 /\ mid.op = "decode_dynamic") =>
        IF PairOf(orig) \in Supported
        THEN /\ mid.status = "ok"
             /\ mid.value.tag = "DynamicImage"
             /\ mid.value.variant = VariantOf(PairOf(orig))
             /\ mid.value.image.kind = VariantKind(mid.value.variant)
             /\ mid.value.image.elem = VariantElem(mid.value.variant)
        ELSE /\ mid.status = "err"
             /\ mid.error.msg = UnsupportedMsg

C3_Witness ==
    /\ orig.tag = "Mat" /\ orig.dims = 2 /\ orig.rows = 2 /\ orig.cols = 1
    /\ PairOf(orig) = << CV_32F, 3 >>
    /\ ~IsContinuous(orig)
    /\ mid.op = "decode_dynamic" /\ mid.status = "ok"

\* C4: the typed decode checks dimensionality, then the channel count, then
\* the depth, and returns the error of the first check that fails; the three
\* errors differ from one another; a matrix that passes all three decodes.
C4_FirstFailure ==
    /\ DimensionalityMsg \notin {GrayChannelMsg, RgbChannelMsg, DepthMsg}
    /\ DepthMsg \notin {GrayChannelMsg, RgbChannelMsg}
    /\ (orig.tag = "Mat" /\ mid.op \in TypedDecodes) =>
          IF orig.rows = -1 \/ orig.cols = -1
          THEN mid.status = "err" /\ mid.error.msg = DimensionalityMsg
          ELSE IF MatChannels(orig) # Expected(mid.op)
          THEN /\ mid.status = "err"
               /\ mid.error.msg = (IF mid.op = "decode_gray" THEN GrayChannelMsg
                                                             ELSE RgbChannelMsg)
          ELSE IF MatDepth(orig) # DEPTH(mid.elem)
          THEN mid.status = "err" /\ mid.error.msg = DepthMsg
          ELSE mid.status = "ok"

C4_Witness ==
    /\ orig.tag = "Mat" /\ orig.dims = 2
    /\ MatChannels(orig) = 3 /\ MatDepth(orig) = CV_16U
    /\ mid.op = "decode_gray" /\ mid.elem = "u8"
    /\ mid.status = "err" /\ mid.error.msg = GrayChannelMsg

\* C5: for a matrix that passes the preconditions of a typed decode, the
\* buffer copied from the contiguous view of its content and the buffer read
\* pixel by pixel with at_2d are the same, and the decode returns that buffer
\* whichever of the two paths it took.
C5_FastEqualsFallback ==
    (orig.tag = "Mat" /\ mid.op \in TypedDecodes /\ Passes(orig, mid.op, mid.elem)) =>
        LET w == orig.cols
            h == orig.rows
            fast == IF mid.op = "decode_gray"
                    THEN GrayFromSlice(Compact(orig), mid.elem, w, h)
                    ELSE RgbFromSlice(Compact(orig), mid.elem, w, h)
            fallback == IF mid.op = "decode_gray"
                        THEN GrayFromAt2d(orig, mid.elem, w, h)
                        ELSE RgbFromAt2d(orig, mid.elem, w, h)
        IN /\ fast.status = "ok"
           /\ fallback.status = "ok"
           /\ fast.value = fallback.value
           /\ mid.status = "ok"
           /\ mid.value = fast.value
           /\ (mid.fx.reads > 0) => ~AsSliceOk(orig, mid.elem)

C5_Witness ==
    /\ orig.tag = "Mat" /\ orig.rows = 2 /\ orig.cols = 2
    /\ ~IsContinuous(orig)
    /\ mid.op = "decode_rgb" /\ mid.elem = "u16"
    /\ mid.status = "ok" /\ mid.fx.reads = 4

\* C6: a decode (typed or dynamic) that returns an error has attempted no
\* contiguous view, read no element and allocated and written no output; a
\* matrix of more than two dimensions is rejected so by all of them; and a
\* call that returns a buffer returns it completely filled.
C6_ErrorBeforeAccess ==
    \A call \in {mid, fin} :
        call.op \in Decodes =>
            /\ call.status \in {"ok", "err"}
            /\ call.status = "err" => (call.fx = NoEffects /\ call.value = NoValue)
            /\ call.status = "ok" =>
                  LET image == IF call.op = "decode_dynamic" THEN call.value.image
                                                             ELSE call.value
                      n == image.width * image.height * CHANNEL_COUNT(image.kind)
                  IN Len(image.raw) = n /\ call.fx.copied = n
            /\ (call = mid /\ orig.tag = "Mat" /\ orig.dims > 2) => call.status = "err"

C6_Witness ==
    /\ orig.tag = "Mat" /\ orig.dims = 3
    /\ PairOf(orig) = << CV_8U, 1 >>
    /\ mid.op = "decode_dynamic" /\ mid.status = "err"
    /\ mid.error.msg = DimensionalityMsg

C8_Original ==
    (orig.tag = "Mat" /\ mid.op \in Decodes /\ mid.status = "err") =>
        /\ mid.error.msg \in {GrayChannelMsg, RgbChannelMsg} =>
              /\ States(mid.error, "n_channels", MatChannels(orig))
              /\ States(mid.error, "expected channels", Expected(mid.op))
        /\ mid.error.msg = DepthMsg =>
              /\ States(mid.error, "depth", MatDepth(orig))
              /\ States(mid.error, "expected depth", DEPTH(mid.elem))
        /\ mid.error.msg = UnsupportedMsg =>
              /\ States(mid.error, "depth", MatDepth(orig))
              /\ States(mid.error, "channels", MatChannels(orig))

\* C8, amended: the channel-mismatch error of the 3-channel decode states the
\* observed channel count and the expected one, and the unsupported-
\* combination error of decode_dynamic names the observed depth and channel
\* count; the channel-mismatch error of the 1-channel decode and the
\* depth-mismatch error are fixed messages that state no value.
C8_ErrorValues ==
    (orig.tag = "Mat" /\ mid.op \in Decodes /\ mid.status = "err") =>
        /\ mid.error.msg = RgbChannelMsg =>
              /\ mid.op = "decode_rgb"
              /\ States(mid.error, "n_channels", MatChannels(orig))
              /\ States(mid.error, "expected channels", 3)
        /\ mid.error.msg = UnsupportedMsg =>
              /\ mid.op = "decode_dynamic"
              /\ States(mid.error, "depth", MatDepth(orig))
              /\ States(mid.error, "channels", MatChannels(orig))
        /\ mid.error.msg \in {GrayChannelMsg, DepthMsg} => mid.error.args = << >>
        /\ (mid.op = "decode_gray" /\ orig.dims = 2 /\ MatChannels(orig) # 1) =>
              mid.error.msg = GrayChannelMsg
        /\ (mid.op = "decode_rgb" /\ orig.dims = 2 /\ MatChannels(orig) # 3) =>
              mid.error.msg = RgbChannelMsg

C8_Witness ==
    /\ orig.tag = "Mat" /\ orig.dims = 2 /\ MatChannels(orig) = 4
    /\ mid.op = "decode_rgb" /\ mid.status = "err"
    /\ mid.error.msg = RgbChannelMsg

\* C9: on a 2-dimensional matrix of a supported (depth, channels) pair,
\* decode_dynamic returns what the typed decode of that pair returns, wrapped
\* in the pair's variant; the typed decode's channel and depth checks pass.
C9_DynamicIsTyped ==
    (orig.tag = "Mat" /\ orig.dims = 2 /\ PairOf(orig) \in Supported
        /\ mid.op = "decode_dynamic") =>
        LET T == ElemOf(MatDepth(orig))
            typed == IF MatChannels(orig) = 1 THEN GrayTryToCv(orig, T)
                                              ELSE RgbTryToCv(orig, T)
        IN /\ Passes(orig, IF MatChannels(orig) = 1 THEN "decode_gray" ELSE "decode_rgb", T)
           /\ typed.status = "ok"
           /\ mid.status = "ok"
           /\ mid.value = DynamicImage(VariantOf(PairOf(orig)), typed.value)
           /\ mid.fx = typed.fx

C9_Witness ==
    /\ orig.tag = "Mat" /\ orig.dims = 2 /\ orig.rows = 2 /\ orig.cols = 2
    /\ PairOf(orig) = << CV_16U, 1 >>
    /\ mid.op = "decode_dynamic" /\ mid.status = "ok"

====
